---- MODULE Spec2Model ----
(***************************************************************************)
(* Model of create_sprite_frames.py: the module-level statements (three    *)
(* notices and one printed line per entry of CREATURES), and the two       *)
(* functions get_frames_from_folder and create_sprite_frames, which the    *)
(* module defines and which only a caller that imports the module can run. *)
(***************************************************************************)
EXTENDS Integers, Sequences, FiniteSets, TLC

(* ------------------------------ bounds --------------------------------- *)
\* largest number of files a creature directory holds
MaxFiles == 3
\* largest number of calls of create_sprite_frames an importing caller makes
MaxCalls == 2
\* largest number of changes another process makes to a directory during a call
MaxInterfere == 2

(* --------------------------- program constants ------------------------- *)
\* CREATURES, in the insertion order a dict iterates in
CREATURES ==
  << [folder |-> "guard_robot", name |-> "Guard Robot", enum |-> "GUARD_ROBOT"],
     [folder |-> "fire_pyrope", name |-> "Fire Pyrope", enum |-> "FIRE_PYROPE"],
     [folder |-> "illusionary_raccoon", name |-> "Illusionary Raccoon", enum |-> "ILLUSIONARY_RACCOON"],
     [folder |-> "ore_muncher", name |-> "Ore Muncher", enum |-> "ORE_MUNCHER"],
     [folder |-> "neon_bat", name |-> "Neon Bat", enum |-> "NEON_BAT"],
     [folder |-> "toy_trojan", name |-> "Toy Trojan", enum |-> "TOY_TROJAN"],
     [folder |-> "robo", name |-> "Robo", enum |-> "ROBO"],
     [folder |-> "froscola", name |-> "Froscola", enum |-> "FROSCOLA"],
     [folder |-> "grizzly", name |-> "Grizzly", enum |-> "GRIZZLY"],
     [folder |-> "blazin_sparkinstone_bugs", name |-> "Blazin' Sparkinstone Bugs", enum |-> "BLAZIN_SPARKINSTONE_BUGS"],
     [folder |-> "stoplight_ghost", name |-> "Stoplight Ghost", enum |-> "STOPLIGHT_GHOST"],
     [folder |-> "haunted_river_rock", name |-> "Haunted River Rock", enum |-> "HAUNTED_RIVER_ROCK"],
     [folder |-> "hedgehog", name |-> "Hedgehog", enum |-> "HEDGEHOG"],
     [folder |-> "delinquent_chick", name |-> "Delinquent Chick", enum |-> "DELINQUENT_CHICK"],
     [folder |-> "ooze_waste", name |-> "Ooze Waste", enum |-> "OOZE_WASTE"],
     [folder |-> "krip", name |-> "Krip", enum |-> "KRIP"],
     [folder |-> "grave_robber_hunting_dog", name |-> "Grave Robber's Hunting Dog", enum |-> "GRAVE_ROBBER_HUNTING_DOG"] >>

BASE_PATH == "C:/Users/purem/OneDrive/Documents/new-game-project/assets/sprites/creatures"

\* the folder keys of CREATURES
Folders == { CREATURES[i].folder : i \in 1..Len(CREATURES) }

(* ------------------------------ inputs --------------------------------- *)
\* filenames a creature directory may hold
FileNames ==
  { "stand_0.png", "stand_1.png", "stand_10.png", "move_a.png", "move_B.png",
    "chase_a.png", "stand", "Stand_2.png", "remove_1.png" }

\* the creatures whose directory is populated, and that a caller asks for
TestCreatures == { 1, 9 }

\* a directory is absent, unreadable, or holds a set of filenames
Absent == [ status |-> "absent", names |-> {} ]
Denied == [ status |-> "denied", names |-> {} ]
Dir(names) == [ status |-> "dir", names |-> names ]
DirContents == { Dir(d) : d \in { n \in SUBSET FileNames : Cardinality(n) <= MaxFiles } }
IsDir(d) == d.status = "dir"

\* no result yet, and Python's None
NoValue == [ type |-> "unset" ]
None == [ type |-> "NoneType" ]
\* no call is running, and no fault has been raised
NoFolder == ""
NoException == ""

(* --------------------------- str operations ---------------------------- *)
\* the printable ASCII characters in code point order: 32 (space) to 95 (_),
\* and 97 (a) to 126 (~); 96 cannot be written in a string here
AsciiLow == " !\"#$%&'()*+,-./0123456789:;<=>?@ABCDEFGHIJKLMNOPQRSTUVWXYZ[\\]^_"
AsciiHigh == "abcdefghijklmnopqrstuvwxyz{|}~"

\* ord(s[i])
Ord(s, i) ==
  LET c == SubSeq(s, i, i) IN
  IF \E k \in 1..Len(AsciiLow) : SubSeq(AsciiLow, k, k) = c
  THEN 31 + CHOOSE k \in 1..Len(AsciiLow) : SubSeq(AsciiLow, k, k) = c
  ELSE 96 + CHOOSE k \in 1..Len(AsciiHigh) : SubSeq(AsciiHigh, k, k) = c

\* a prefix test that leaves out the last character of the prefix
StartsWithNoSep(s, p) ==
  Len(s) >= Len(p) - 1 /\ SubSeq(s, 1, Len(p) - 1) = SubSeq(p, 1, Len(p) - 1)

\* s.startswith(p)
StartsWith(s, p) == Len(s) >= Len(p) /\ SubSeq(s, 1, Len(p)) = p

\* a < b on str: the first differing code point decides, a proper prefix is smaller
RECURSIVE StrLessFrom(_, _, _)
StrLessFrom(a, b, i) ==
  IF i > Len(b) THEN FALSE
  ELSE IF i > Len(a) THEN TRUE
  ELSE IF Ord(a, i) # Ord(b, i) THEN Ord(a, i) < Ord(b, i)
  ELSE StrLessFrom(a, b, i + 1)

StrLess(a, b) == StrLessFrom(a, b, 1)

\* sep.join(parts)
RECURSIVE Join(_, _)
Join(parts, sep) ==
  IF parts = <<>> THEN ""
  ELSE IF Len(parts) = 1 THEN parts[1]
  ELSE parts[1] \o sep \o Join(Tail(parts), sep)

\* str(base / child) of pathlib, in the form a POSIX build prints it
PathJoin(base, child) == base \o "/" \o child

(* ------------------------------- state --------------------------------- *)
VARIABLES
  mode,            \* "script": run as a program; "import": loaded by a caller
  pc,              \* position of the interpreter
  idx,             \* position of the module-level for loop in CREATURES
  stdout,          \* the text of the print calls, in order
  fs,              \* the directory of each creature folder under BASE_PATH
  listed,          \* the folders os.listdir has been called on, in order
  calls,           \* calls of create_sprite_frames made so far
  folder_name,     \* argument of the running call
  stand_frames,    \* local of the running call
  move_frames,     \* local of the running call
  lines,           \* local of the running call
  idle_anim,       \* local of the running call
  move_anim,       \* local of the running call
  animations_data, \* local of the running call
  dirIdx,          \* position of the loop over the four directions
  result,          \* what the call returned
  exception,       \* the fault that left the call, if any
  returned,        \* the frame pairs of the finished listings, per call
  seen,            \* the contents the folder's directory had during the call
  interfered       \* changes made by another process so far

vars == << mode, pc, idx, stdout, fs, listed, calls, folder_name, stand_frames,
           move_frames, lines, idle_anim, move_anim, animations_data, dirIdx,
           result, exception, returned, seen, interfered >>

locals == << folder_name, stand_frames, move_frames, lines, idle_anim,
             move_anim, animations_data, dirIdx, result, exception >>


Init ==
  /\ mode \in { "script", "import" }
  /\ pc = "l127"
  /\ idx = 1
  /\ stdout = <<>>
  /\ \E k \in TestCreatures, d \in DirContents \cup { Absent, Denied } :
       fs = [ f \in Folders |-> IF f = CREATURES[k].folder THEN d ELSE Absent ]
  /\ listed = <<>>
  /\ calls = 0
  /\ folder_name = NoFolder
  /\ stand_frames = <<>>
  /\ move_frames = <<>>
  /\ lines = <<>>
  /\ idle_anim = <<>>
  /\ move_anim = <<>>
  /\ animations_data = <<>>
  /\ dirIdx = 0
  /\ result = NoValue
  /\ exception = NoException
  /\ returned = <<>>
  /\ seen = {}
  /\ interfered = 0

(* ----------------------- module-level statements ----------------------- *)
Notice1 == "Due to Godot's resource format complexity, SpriteFrames should be created in Godot editor."
Notice2 == "However, we can still proceed by updating the global_enums.gd with placeholders."
Header == "\nCreatures to add:"

\* a line that gives the folder key without BASE_PATH
CreatureLineFolderOnly(c) ==
  "  - " \o c.name \o " (" \o c.enum \o "): " \o c.folder

\* the f-string of line 131
CreatureLine(c) ==
  "  - " \o c.name \o " (" \o c.enum \o "): " \o PathJoin(BASE_PATH, c.folder)

PrintNotice1 ==
  /\ pc = "l127"
  /\ stdout' = Append(stdout, Notice1)
  /\ pc' = "l128"
  /\ UNCHANGED << mode, idx, fs, listed, calls, locals, returned, seen, interfered >>

PrintNotice2 ==
  /\ pc = "l128"
  /\ stdout' = Append(stdout, Notice2)
  /\ pc' = "l129"
  /\ UNCHANGED << mode, idx, fs, listed, calls, locals, returned, seen, interfered >>

PrintHeader ==
  /\ pc = "l129"
  /\ stdout' = Append(stdout, Header)
  /\ pc' = "loop"
  /\ UNCHANGED << mode, idx, fs, listed, calls, locals, returned, seen, interfered >>

\* a loop body that also lists the creature's directory
PrintCreatureListing ==
  /\ pc = "loop"
  /\ idx <= Len(CREATURES)
  /\ stdout' = Append(stdout, CreatureLine(CREATURES[idx]))
  /\ listed' = Append(listed, CREATURES[idx].folder)
  /\ idx' = idx + 1
  /\ UNCHANGED << mode, pc, fs, calls, locals, returned, seen, interfered >>

\* one iteration of the for loop of lines 130-131
PrintCreature ==
  /\ pc = "loop"
  /\ idx <= Len(CREATURES)
  /\ stdout' = Append(stdout, CreatureLine(CREATURES[idx]))
  /\ idx' = idx + 1
  /\ UNCHANGED << mode, pc, fs, listed, calls, locals, returned, seen, interfered >>

\* the loop is exhausted: a script run ends, an importing caller gets control
ModuleEnd ==
  /\ pc = "loop"
  /\ idx > Len(CREATURES)
  /\ pc' = IF mode = "script" THEN "exit" ELSE "idle"
  /\ UNCHANGED << mode, idx, stdout, fs, listed, calls, locals, returned, seen, interfered >>

(* ------------------------ get_frames_from_folder ----------------------- *)
\* the orders in which a directory listing may return the names n
Perms(n) ==
  { l \in [ 1..Cardinality(n) -> n ] :
      \A i, j \in 1..Cardinality(n) : i # j => l[i] # l[j] }

\* a listing that yields no names where the directory cannot be listed
OsListdirEmptyOnFault(d) ==
  IF IsDir(d) THEN [ ok |-> TRUE, names |-> Perms(d.names), error |-> NoException ]
  ELSE [ ok |-> TRUE, names |-> { <<>> }, error |-> NoException ]

\* os.listdir: the names in arbitrary order, or the fault it raises
OsListdir(d) ==
  IF IsDir(d) THEN [ ok |-> TRUE, names |-> Perms(d.names), error |-> NoException ]
  ELSE [ ok |-> FALSE, names |-> {},
         error |-> IF d = Absent THEN "FileNotFoundError" ELSE "PermissionError" ]

\* sorted(): names are inserted one by one after the names not greater
RECURSIVE Insert(_, _)
Insert(s, x) ==
  IF s = <<>> THEN << x >>
  ELSE IF StrLess(x, Head(s)) THEN << x >> \o s
  ELSE << Head(s) >> \o Insert(Tail(s), x)

\* the names left in the order of the listing
SortedUnsorted(l) == l

RECURSIVE Sorted(_)
Sorted(l) ==
  IF l = <<>> THEN <<>>
  ELSE Insert(Sorted(SubSeq(l, 1, Len(l) - 1)), l[Len(l)])

\* sorted([f for f in os.listdir(folder_path) if f.startswith(prefix)])
FramesWith(l, prefix) == Sorted(SelectSeq(l, LAMBDA f : StartsWith(f, prefix)))

\* a fallback taken whether or not there are move frames
NeedsFallbackAlways(move) == TRUE

\* if not move_frames
NeedsFallback(move) == move = <<>>

Call ==
  /\ pc = "idle"
  /\ calls < MaxCalls
  /\ \E i \in TestCreatures :
       /\ folder_name' = CREATURES[i].folder
       /\ seen' = { fs[CREATURES[i].folder] }
  /\ calls' = calls + 1
  /\ pc' = "list_stand"
  /\ UNCHANGED << mode, idx, stdout, fs, listed, stand_frames, move_frames, lines,
                  idle_anim, move_anim, animations_data, dirIdx, result,
                  exception, returned, interfered >>

\* line 35
ListStand ==
  /\ pc = "list_stand"
  /\ listed' = Append(listed, folder_name)
  /\ LET r == OsListdir(fs[folder_name]) IN
       IF r.ok
       THEN /\ \E l \in r.names : stand_frames' = FramesWith(l, "stand_")
            /\ pc' = "list_move"
            /\ UNCHANGED exception
       ELSE /\ pc' = "raised"
            /\ exception' = r.error
            /\ UNCHANGED stand_frames
  /\ UNCHANGED << mode, idx, stdout, fs, calls, folder_name, move_frames, lines,
                  idle_anim, move_anim, animations_data, dirIdx, result,
                  returned, seen, interfered >>

\* lines 36, 39 and, without the fallback, 42
ListMove ==
  /\ pc = "list_move"
  /\ listed' = Append(listed, folder_name)
  /\ LET r == OsListdir(fs[folder_name]) IN
       IF r.ok
       THEN \E l \in r.names :
              LET m == FramesWith(l, "move_") IN
              /\ move_frames' = m
              /\ IF NeedsFallback(m)
                 THEN pc' = "list_chase" /\ UNCHANGED returned
                 ELSE /\ pc' = "check"
                      /\ returned' = Append(returned,
                           [ folder |-> folder_name, stand |-> stand_frames, move |-> m ])
              /\ UNCHANGED exception
       ELSE /\ pc' = "raised"
            /\ exception' = r.error
            /\ UNCHANGED << move_frames, returned >>
  /\ UNCHANGED << mode, idx, stdout, fs, calls, folder_name, stand_frames, lines,
                  idle_anim, move_anim, animations_data, dirIdx, result,
                  seen, interfered >>

\* lines 40 and 42
ListChase ==
  /\ pc = "list_chase"
  /\ listed' = Append(listed, folder_name)
  /\ LET r == OsListdir(fs[folder_name]) IN
       IF r.ok
       THEN \E l \in r.names :
              LET m == FramesWith(l, "chase_") IN
              /\ move_frames' = m
              /\ pc' = "check"
              /\ returned' = Append(returned,
                   [ folder |-> folder_name, stand |-> stand_frames, move |-> m ])
              /\ UNCHANGED exception
       ELSE /\ pc' = "raised"
            /\ exception' = r.error
            /\ UNCHANGED << move_frames, returned >>
  /\ UNCHANGED << mode, idx, stdout, fs, calls, folder_name, stand_frames, lines,
                  idle_anim, move_anim, animations_data, dirIdx, result,
                  seen, interfered >>

(* ------------------------- create_sprite_frames ------------------------ *)
\* a test that skips only when both lists are empty
MissingFramesBoth(stand, move) == stand = <<>> /\ move = <<>>

\* if not stand_frames or not move_frames
MissingFrames(stand, move) == stand = <<>> \/ move = <<>>

Warning(folder) == "Warning: Missing frames for " \o folder

\* lines 49-51
Check ==
  /\ pc = "check"
  /\ IF MissingFrames(stand_frames, move_frames)
     THEN /\ stdout' = Append(stdout, Warning(folder_name))
          /\ result' = None
          /\ pc' = "returned"
     ELSE /\ pc' = "build_lines"
          /\ UNCHANGED << stdout, result >>
  /\ UNCHANGED << mode, idx, fs, listed, calls, folder_name, stand_frames,
                  move_frames, lines, idle_anim, move_anim, animations_data,
                  dirIdx, exception, returned, seen, interfered >>

\* the f-string of lines 72, 85 and 107
FramePath(folder, frame) == "res://assets/sprites/creatures/" \o folder \o "/" \o frame

\* the f-string of lines 73, 86 and 108
FrameEntry(folder, frame) ==
  "{\n\"duration\": 1.0,\n\"texture\": ExtResource(\"" \o FramePath(folder, frame) \o "\")\n}"

\* frame_entries after the loop over the frames
FrameEntries(folder, frames) ==
  [ i \in 1..Len(frames) |-> FrameEntry(folder, frames[i]) ]

\* the six entries appended to an animation's list
AnimLines(entries, name) ==
  << "\"frames\": [", Join(entries, ",\n"), "],", "\"loop\": true,",
     "\"name\": &\"" \o name \o "\",", "\"speed\": 8.0" >>

\* lines 68-78
IdleAnim(folder, stand) == AnimLines(FrameEntries(folder, stand), "idle")

\* lines 81-91
MoveAnim(folder, move) == AnimLines(FrameEntries(folder, move), "walk")

\* the shared move animation, named walk, used for every direction
WalkAnimAsMove(folder, move, direction) == MoveAnim(folder, move)

\* lines 103-113
WalkAnim(folder, move, direction) == AnimLines(FrameEntries(folder, move), direction)

\* '{\n' + '\n'.join(anim) + '\n}'
ClipText(anim) == "{\n" \o Join(anim, "\n") \o "\n}"

\* the list of line 102
Directions == << "walk-down", "walk-left", "walk-right", "walk-up" >>

\* a return of the assembled lines
FinishResultLines(l) == [ type |-> "list", value |-> l ]

\* the value of the return statement of line 122
FinishResult(l) == None

\* lines 54-58
BuildLines ==
  /\ pc = "build_lines"
  /\ lines' = << "[gd_resource type=\"SpriteFrames\" format=3]", "", "[resource]",
                 "animations = [{" >>
  /\ pc' = "build_idle"
  /\ UNCHANGED << mode, idx, stdout, fs, listed, calls, folder_name, stand_frames,
                  move_frames, idle_anim, move_anim, animations_data, dirIdx,
                  result, exception, returned, seen, interfered >>

\* lines 65-78
BuildIdle ==
  /\ pc = "build_idle"
  /\ idle_anim' = IdleAnim(folder_name, stand_frames)
  /\ pc' = "build_move"
  /\ UNCHANGED << mode, idx, stdout, fs, listed, calls, folder_name, stand_frames,
                  move_frames, lines, move_anim, animations_data, dirIdx,
                  result, exception, returned, seen, interfered >>

\* lines 81-91
BuildMove ==
  /\ pc = "build_move"
  /\ move_anim' = MoveAnim(folder_name, move_frames)
  /\ pc' = "build_data"
  /\ UNCHANGED << mode, idx, stdout, fs, listed, calls, folder_name, stand_frames,
                  move_frames, lines, idle_anim, animations_data, dirIdx,
                  result, exception, returned, seen, interfered >>

\* lines 96-99
BuildData ==
  /\ pc = "build_data"
  /\ animations_data' = << ClipText(idle_anim) >>
  /\ dirIdx' = 1
  /\ pc' = "walk_loop"
  /\ UNCHANGED << mode, idx, stdout, fs, listed, calls, folder_name, stand_frames,
                  move_frames, lines, idle_anim, move_anim, result, exception,
                  returned, seen, interfered >>

\* one iteration of the loop of lines 102-114
WalkIter ==
  /\ pc = "walk_loop"
  /\ dirIdx <= Len(Directions)
  /\ animations_data' =
       Append(animations_data,
              ClipText(WalkAnim(folder_name, move_frames, Directions[dirIdx])))
  /\ dirIdx' = dirIdx + 1
  /\ UNCHANGED << mode, pc, idx, stdout, fs, listed, calls, folder_name,
                  stand_frames, move_frames, lines, idle_anim, move_anim, result,
                  exception, returned, seen, interfered >>

\* lines 116-122
Finish ==
  /\ pc = "walk_loop"
  /\ dirIdx > Len(Directions)
  /\ lines' = lines \o << Join(animations_data, ",\n"), "}]" >>
  /\ result' = FinishResult(lines')
  /\ pc' = "returned"
  /\ UNCHANGED << mode, idx, stdout, fs, listed, calls, folder_name, stand_frames,
                  move_frames, idle_anim, move_anim, animations_data, dirIdx,
                  exception, returned, seen, interfered >>

\* the caller has the result; the locals of the call are gone
Resume ==
  /\ pc = "returned"
  /\ pc' = "idle"
  /\ folder_name' = NoFolder
  /\ stand_frames' = <<>>
  /\ move_frames' = <<>>
  /\ lines' = <<>>
  /\ idle_anim' = <<>>
  /\ move_anim' = <<>>
  /\ animations_data' = <<>>
  /\ dirIdx' = 0
  /\ result' = NoValue
  /\ seen' = {}
  /\ UNCHANGED << mode, idx, stdout, fs, listed, calls, exception, returned,
                  interfered >>

(* --------------------------- other processes --------------------------- *)
\* another process creates or deletes one file of the directory between two
\* of the listings of a call
Interfere ==
  /\ pc \in { "list_move", "list_chase" }
  /\ interfered < MaxInterfere
  /\ IsDir(fs[folder_name])
  /\ \E f \in FileNames :
       LET old == fs[folder_name].names
           new == IF f \in old THEN old \ { f } ELSE old \cup { f } IN
       /\ Cardinality(new) <= MaxFiles
       /\ fs' = [ fs EXCEPT ![folder_name] = Dir(new) ]
       /\ seen' = seen \cup { Dir(new) }
  /\ interfered' = interfered + 1
  /\ UNCHANGED << mode, pc, idx, stdout, listed, calls, locals, returned >>

Next ==
  \/ PrintNotice1
  \/ PrintNotice2
  \/ PrintHeader
  \/ PrintCreature
  \/ ModuleEnd
  \/ Call
  \/ ListStand
  \/ ListMove
  \/ ListChase
  \/ Check
  \/ BuildLines
  \/ BuildIdle
  \/ BuildMove
  \/ BuildData
  \/ WalkIter
  \/ Finish
  \/ Resume

\* the program alone: nothing else touches the directories
Spec == Init /\ [][Next]_vars

NextRace ==
  \/ Next
  \/ Interfere

\* the program with another process changing the directory during a call
SpecRace == Init /\ [][NextRace]_vars

(* ------------------- vocabulary of the properties ---------------------- *)
\* f starts with p: f is p followed by the rest of f
HasPrefix(f, p) == Len(p) <= Len(f) /\ f = p \o SubSeq(f, Len(p) + 1, Len(f))

\* a comes before b in lexicographic order of code points: they agree on the
\* first k characters, and then a ends first or has the smaller character
Precedes(a, b) ==
  \E k \in 0..Len(a) :
    /\ k <= Len(b)
    /\ SubSeq(a, 1, k) = SubSeq(b, 1, k)
    /\ \/ k = Len(a) /\ k < Len(b)
       \/ k < Len(a) /\ k < Len(b) /\ Ord(a, k + 1) < Ord(b, k + 1)

\* l holds exactly the names of the set n, each once, in ascending order
IsSortedListOf(l, n) ==
  /\ Len(l) = Cardinality(n)
  /\ { l[i] : i \in 1..Len(l) } = n
  /\ \A i, j \in 1..Len(l) : i < j => Precedes(l[i], l[j])

StandOf(d) == { f \in d.names : HasPrefix(f, "stand_") }
MoveOf(d) == { f \in d.names : HasPrefix(f, "move_") }
ChaseOf(d) == { f \in d.names : HasPrefix(f, "chase_") }

\* the move set of a directory: its move_ names, or its chase_ names when it has no move_ name
MoveOrChaseOf(d) == IF MoveOf(d) # {} THEN MoveOf(d) ELSE ChaseOf(d)

\* positions of the call after get_frames_from_folder has returned
AfterListing ==
  { "check", "build_lines", "build_idle", "build_move", "build_data", "walk_loop",
    "returned" }

(* ------------------------------- claims -------------------------------- *)
\* C1: the stand set returned by get_frames_from_folder holds exactly the
\* names of the directory that start with stand_, in ascending order.
C1_StandSet ==
  \A i \in 1..Len(returned) :
    IsSortedListOf(returned[i].stand, StandOf(fs[returned[i].folder]))

\* the example of the spec: stand_1.png, stand_0.png and chase_a.png
C1_Witness ==
  \E i \in 1..Len(returned) :
    /\ fs[returned[i].folder].names = { "stand_1.png", "stand_0.png", "chase_a.png" }
    /\ returned[i].stand = << "stand_0.png", "stand_1.png" >>

\* C2: the move set returned is exactly the move_ names in ascending order
\* when there is one, else exactly the chase_ names in ascending order; a
\* chase_ name is never in it when a move_ name exists.
C2_MoveSet ==
  \A i \in 1..Len(returned) :
    LET d == fs[returned[i].folder]
        m == returned[i].move IN
    /\ MoveOf(d) # {} => IsSortedListOf(m, MoveOf(d))
    /\ MoveOf(d) = {} => IsSortedListOf(m, ChaseOf(d))
    /\ MoveOf(d) # {} => \A j \in 1..Len(m) : ~ HasPrefix(m[j], "chase_")

C2_Witness ==
  \E i \in 1..Len(returned) :
    /\ fs[returned[i].folder].names = { "move_a.png", "move_B.png", "chase_a.png" }
    /\ returned[i].move = << "move_B.png", "move_a.png" >>

\* C3: for an existing folder whose stand set is empty, or whose move set
\* after the chase fallback is empty, create_sprite_frames builds no resource
\* content and raises nothing, and it returns None after printing the warning
\* for that folder, whatever move_ or chase_ files the folder holds.
C3_SkipWithWarning ==
  ( /\ folder_name # NoFolder
    /\ IsDir(fs[folder_name])
    /\ StandOf(fs[folder_name]) = {} \/ MoveOrChaseOf(fs[folder_name]) = {} )
  => /\ pc \in { "list_stand", "list_move", "list_chase", "check", "returned" }
     /\ exception = NoException
     /\ lines = <<>> /\ idle_anim = <<>> /\ move_anim = <<>> /\ animations_data = <<>>
     /\ pc = "returned" => /\ result = None
                           /\ stdout # <<>>
                           /\ stdout[Len(stdout)] = "Warning: Missing frames for " \o folder_name

\* a folder without stand_ files that holds move_ and chase_ files is skipped
C3_Witness ==
  /\ pc = "returned"
  /\ folder_name # NoFolder
  /\ fs[folder_name].names = { "move_a.png", "chase_a.png", "Stand_2.png" }
  /\ result = None
  /\ stdout[Len(stdout)] = "Warning: Missing frames for " \o folder_name

\* C4 as stated: a run of the script has, when it ends, listed the directory
\* of every entry of the creature mapping.
C4_RunListsEveryCreature ==
  ( mode = "script" /\ pc = "exit" )
  => \A i \in 1..Len(CREATURES) :
       \E j \in 1..Len(listed) : listed[j] = CREATURES[i].folder

\* C4 as amended: a run of the script lists no directory, calls nothing and
\* prints no warning; it is a call of create_sprite_frames that lists the
\* creature's directory, partitions its filenames by prefix into sorted
\* lists, and prints the warning and returns when frames are missing.
C4_OnlyACallLists ==
  /\ mode = "script" =>
       /\ listed = <<>>
       /\ calls = 0
       /\ \A i \in 1..Len(stdout) : ~ HasPrefix(stdout[i], "Warning")
  /\ pc \in AfterListing =>
       /\ listed # <<>> /\ listed[Len(listed)] = folder_name
       /\ IsSortedListOf(stand_frames, StandOf(fs[folder_name]))
       /\ IsSortedListOf(move_frames, MoveOrChaseOf(fs[folder_name]))
       /\ ( stand_frames = <<>> \/ move_frames = <<>> ) =>
            /\ pc \in { "check", "returned" }
            /\ pc = "returned" => HasPrefix(stdout[Len(stdout)], "Warning")

\* a finished script run that listed nothing although a directory holds frames
C4_Witness ==
  /\ mode = "script"
  /\ pc = "exit"
  /\ listed = <<>>
  /\ \E f \in Folders :
       IsDir(fs[f]) /\ StandOf(fs[f]) # {} /\ MoveOf(fs[f]) # {}

\* what a script run prints: the two notices, the header, one line per entry
ExpectedOutput(out) ==
  /\ Len(out) = 3 + Len(CREATURES)
  /\ out[1] = "Due to Godot's resource format complexity, SpriteFrames should be created in Godot editor."
  /\ out[2] = "However, we can still proceed by updating the global_enums.gd with placeholders."
  /\ out[3] = "\nCreatures to add:"
  /\ \A i \in 1..Len(CREATURES) :
       out[3 + i] = "  - " \o CREATURES[i].name \o " (" \o CREATURES[i].enum \o "): "
                      \o BASE_PATH \o "/" \o CREATURES[i].folder

\* C5: a run of the script changes no directory, its output when it ends is
\* the two notices, the header and one line per entry of CREATURES in the
\* mapping's order, and nothing happens after it has ended.
C5_RunOnlyPrints ==
  /\ [](( mode = "script" /\ pc = "exit" ) => ExpectedOutput(stdout))
  /\ [][ mode = "script" => fs' = fs ]_vars
  /\ [][ pc # "exit" ]_vars

C5_Witness ==
  /\ mode = "script"
  /\ pc = "exit"
  /\ Len(stdout) = 20
  /\ stdout[12] = "  - Grizzly (GRIZZLY): C:/Users/purem/OneDrive/Documents/new-game-project/assets/sprites/creatures/grizzly"

\* C6: when the creature's directory does not exist or cannot be read, the
\* call ends with the listing's fault at its first listing: no warning for the
\* folder is printed, no frame pair and no result is returned.
C6_ListingFaultPropagates ==
  ( /\ folder_name # NoFolder
    /\ ~ IsDir(fs[folder_name])
    /\ pc # "list_stand" )
  => /\ pc = "raised"
     /\ exception = IF fs[folder_name].status = "absent"
                    THEN "FileNotFoundError" ELSE "PermissionError"
     /\ result = NoValue
     /\ \A i \in 1..Len(stdout) : stdout[i] # "Warning: Missing frames for " \o folder_name
     /\ \A i \in 1..Len(returned) : returned[i].folder # folder_name

C6_Witness ==
  /\ pc = "raised"
  /\ fs[folder_name].status = "denied"
  /\ exception = "PermissionError"
  /\ listed # <<>>

\* C7: create_sprite_frames returns None on every path that returns, and the
\* assembled lines are never the result and never printed.
C7_AlwaysReturnsNone ==
  /\ pc = "returned" => result = None
  /\ result \in { NoValue, None }
  /\ \A i \in 1..Len(stdout) : \A j \in 1..Len(lines) : stdout[i] # lines[j]

\* the return after the content has been fully assembled
C7_Witness ==
  /\ pc = "returned"
  /\ Len(lines) = 6
  /\ lines[6] = "}]"
  /\ result = None

\* the positions at which the text sub occurs in the text s
Occ(s, sub) ==
  { i \in 1..(Len(s) - Len(sub) + 1) : SubSeq(s, i, i + Len(sub) - 1) = sub }

\* the line that names a clip, and the reference to a frame of a folder
NameLine(name) == "\"name\": &\"" \o name \o "\","
TextureRef(folder, frame) ==
  "ExtResource(\"res://assets/sprites/creatures/" \o folder \o "/" \o frame \o "\")"

\* the names a clip could carry
ClipNames == { "idle", "walk", "walk-down", "walk-left", "walk-right", "walk-up" }

\* the clip text carries the name and no other, and holds one frame entry per
\* frame of frames, in the order of frames
IsClipOf(clip, name, folder, frames) ==
  /\ \A n \in ClipNames : Cardinality(Occ(clip, NameLine(n))) = IF n = name THEN 1 ELSE 0
  /\ Cardinality(Occ(clip, "\"texture\": ExtResource(")) = Len(frames)
  /\ Cardinality(Occ(clip, "\"duration\": 1.0")) = Len(frames)
  /\ \A i \in 1..Len(frames) :
       Cardinality(Occ(clip, TextureRef(folder, frames[i]))) = 1
  /\ \A i, j \in 1..Len(frames) :
       i < j => \A a \in Occ(clip, TextureRef(folder, frames[i])) :
                  \A b \in Occ(clip, TextureRef(folder, frames[j])) : a < b

\* the text of a clip with its name removed
Unnamed(clip, name) ==
  LET at == CHOOSE i \in Occ(clip, NameLine(name)) : TRUE IN
  SubSeq(clip, 1, at - 1) \o SubSeq(clip, at + Len(NameLine(name)), Len(clip))

\* C8: the assembled content holds exactly five clips, named idle, walk-down,
\* walk-left, walk-right and walk-up in this order and none named walk; the
\* idle clip holds the stand frames in their order, each walk clip the move
\* frames in their order, and the walk clips differ only in their name.
C8_FiveClips ==
  ( pc = "returned" /\ lines # <<>> )
  => LET order == << "idle", "walk-down", "walk-left", "walk-right", "walk-up" >>
         content == lines[5] IN
     /\ Len(lines) = 6
     /\ lines[6] = "}]"
     /\ Len(animations_data) = 5
     /\ Cardinality(Occ(content, "\"name\": &\"")) = 5
     /\ Occ(content, NameLine("walk")) = {}
     /\ content = animations_data[1] \o ",\n" \o animations_data[2] \o ",\n"
                   \o animations_data[3] \o ",\n" \o animations_data[4] \o ",\n"
                   \o animations_data[5]
     /\ \A i, j \in 1..5 :
          i < j => \A a \in Occ(content, NameLine(order[i])) :
                     \A b \in Occ(content, NameLine(order[j])) : a < b
     /\ IsClipOf(animations_data[1], "idle", folder_name, stand_frames)
     /\ \A i \in 2..5 : IsClipOf(animations_data[i], order[i], folder_name, move_frames)
     /\ \A i \in 3..5 :
          Unnamed(animations_data[i], order[i]) = Unnamed(animations_data[2], order[2])

C8_Witness ==
  /\ pc = "returned"
  /\ Len(lines) = 6
  /\ stand_frames = << "stand_1.png", "stand_10.png" >>
  /\ move_frames = << "chase_a.png" >>
  /\ Len(animations_data) = 5

\* C9: two calls on directories holding the same names return the same pair
\* of lists whatever the order of the listings, and every returned list is
\* strictly ascending.
C9_ListingOrderIrrelevant ==
  /\ \A i, j \in 1..Len(returned) :
       fs[returned[i].folder] = fs[returned[j].folder]
       => returned[i].stand = returned[j].stand /\ returned[i].move = returned[j].move
  /\ \A i \in 1..Len(returned) :
       /\ \A a, b \in 1..Len(returned[i].stand) :
            a < b => Precedes(returned[i].stand[a], returned[i].stand[b])
       /\ \A a, b \in 1..Len(returned[i].move) :
            a < b => Precedes(returned[i].move[a], returned[i].move[b])

\* two finished calls on the same directory of three stand frames
C9_Witness ==
  /\ Len(returned) = 2
  /\ returned[1].folder = returned[2].folder
  /\ returned[1].stand = << "stand_0.png", "stand_1.png", "stand_10.png" >>
  /\ returned[2].stand = returned[1].stand

\* C10: the pair returned by get_frames_from_folder is the partition of one
\* content that the directory had during the call, also when another process
\* adds or removes files between the listings.
C10_OneSnapshot ==
  pc = "check"
  => \E d \in seen :
       /\ IsSortedListOf(stand_frames, StandOf(d))
       /\ IsSortedListOf(move_frames, MoveOrChaseOf(d))
====
